---- MODULE Spec2Model ----
(***************************************************************************)
(* The await-vercel-deployment action of endformdev/actions.               *)
(*                                                                         *)
(* src/await-vercel-deployment/src/index.ts holds two revisions of the     *)
(* action one after the other: lines 1-385 (credential with expiry,        *)
(* refreshed inside the wait loop; 409 and 5xx are fatal) and lines        *)
(* 387-723 (a bare token string, no refresh; only 400 and 403 are fatal).  *)
(* Spec is the wait loop of the first revision, SpecLegacy the wait loop   *)
(* of the second.                                                          *)
(*                                                                         *)
(* Time is in milliseconds, as Date.now() gives it.  The code between two  *)
(* awaits runs at one clock reading; the clock advances while a request    *)
(* is in flight and while the loop sleeps.                                 *)
(***************************************************************************)
EXTENDS Integers, Sequences, FiniteSets, TLC

VARIABLES
    pc,             \* position of waitForVercelDeployment
    now,            \* Date.now()
    startTime,      \* const startTime
    timeoutSeconds, \* parameter timeoutSeconds
    env,            \* process.env: which broker variables are set
    currentToken,   \* let currentToken: TokenWithExpiry
    sent,           \* bearer token of the status request of this iteration
    response,       \* the response pollDeploymentStatus received
    result,         \* const result: PollResult of this iteration
    outcome,        \* how waitForVercelDeployment ended
    decisions,      \* the result.type of every poll so far
    polls,          \* status requests issued
    brokerCalls,    \* broker requests issued
    acquires,       \* createTokenWithExpiry calls made by the loop
    sleeps,         \* sleep(POLL_INTERVAL_MS) calls
    iter,           \* what the current iteration has done so far
    core            \* @actions/core: the inputs, and what run() set (failure, outputs)

vars == <<pc, now, startTime, timeoutSeconds, env, currentToken, sent, response,
          result, outcome, decisions, polls, brokerCalls, acquires, sleeps, iter,
          core>>

----------------------------------------------------------------------------
(* Program constants *)

DEFAULT_TIMEOUT_SECONDS == 600
POLL_INTERVAL_MS == 5000
REFRESH_BUFFER_MS == 30000

IN_PROGRESS_STATUSES == {"BUILDING", "INITIALIZING", "QUEUED"}
\* Variant of FAILED_STATUSES: QUEUED listed as a failure.
FAILED_STATUSES_WithQueued == {"ERROR", "CANCELED", "QUEUED"}
\* Variant of FAILED_STATUSES: CANCELED left out.
FAILED_STATUSES_ErrorOnly == {"ERROR"}
FAILED_STATUSES == {"ERROR", "CANCELED"}

----------------------------------------------------------------------------
(* Bounds of the model *)

\* largest timeout-seconds tried
MaxTimeoutSeconds == 10
\* longest round trip of one request, in ms
MaxLatencyMs == 2500
\* how late the sleep timer may fire, in ms
MaxTimerLagMs == 1

TimeoutChoices == {5, MaxTimeoutSeconds}
Latencies == {0, 1, MaxLatencyMs}
TimerLags == 0..MaxTimerLagMs
\* Date.now() when the wait starts
StartTimes == {99999, 100000}
\* exp claims (seconds) of the credential the wait starts with
InitialExps == {90, 120, 130, 160}
\* exp claims (seconds) the broker may put in a token it issues
BrokerExps == {0, 130, 700}

----------------------------------------------------------------------------
(* Values *)

Absent == "<absent>"     \* a field the JSON object does not have (undefined)
Null == "<null>"         \* JSON null
NoToken == [id |-> -1, parts |-> 0, payload |-> "none", exp |-> 0]
NoData == [deploymentId |-> Absent, status |-> Absent, deploymentURL |-> Absent]
NoResponse == [kind |-> "none", code |-> 0, statusText |-> "", form |-> "none", json |-> NoData]
NoResult == [type |-> "none", data |-> NoData, msg |-> <<>>]
NoOutcome == [type |-> "none", data |-> NoData, msg |-> <<>>]

\* A token: its dot-separated segment count and what its middle segment decodes to.
\* payload "object": a JSON object, exp its exp claim; "noexp": an object without exp;
\* "strexp": exp is a string; "notjson": the segment does not decode to JSON.
Token(id, parts, payload, exp) == [id |-> id, parts |-> parts, payload |-> payload, exp |-> exp]

\* The tokens the broker may answer with for the n-th acquisition.
BrokerTokens(n) ==
    {Token(n, 3, "object", e) : e \in BrokerExps}
    \cup {Token(n, 2, "object", 700), Token(n, 3, "notjson", 0),
          Token(n, 3, "noexp", 0), Token(n, 3, "strexp", 700)}

\* What fetch() of the broker may produce: a rejection, a non-2xx response, a 2xx
\* response without value, a 2xx response with one.
BrokerResponses(n) ==
    {[kind |-> "neterr", code |-> 0, value |-> NoToken],
     [kind |-> "http", code |-> 500, value |-> NoToken],
     [kind |-> "http", code |-> 200, value |-> NoToken]}
    \cup {[kind |-> "http", code |-> 200, value |-> t] : t \in BrokerTokens(n)}

Url == "https://example.vercel.app"
Statuses == {"QUEUED", "INITIALIZING", "BUILDING", "READY", "ERROR", "CANCELED"}

\* JSON objects the status service may answer with.
Payloads ==
    {[deploymentId |-> "dpl_1", status |-> "READY", deploymentURL |-> u] :
        u \in {Url, "", Null, Absent}}
    \cup {[deploymentId |-> "dpl_1", status |-> s, deploymentURL |-> u] :
        s \in (Statuses \ {"READY"}) \cup {"PENDING_REVIEW", Absent}, u \in {Url, Null}}

\* Response bodies: form "unreadable" (the body stream fails), "text" (not JSON),
\* "null" (the JSON value null), "object" (a JSON object, json its fields).
Body(form, json) == [form |-> form, json |-> json]
Bodies ==
    {Body("unreadable", NoData), Body("text", NoData), Body("null", NoData)}
    \cup {Body("object", p) : p \in Payloads}
\* Bodies of non-2xx responses; a failing body stream is tried on one retried and one
\* fatal code.
ErrorBodies(code) ==
    {Body("text", NoData),
     Body("object", [deploymentId |-> "dpl_1", status |-> "READY", deploymentURL |-> Url])}
    \cup (IF code \in {404, 500} THEN {Body("unreadable", NoData)} ELSE {})

OkCodes == {200, 201}
ErrorCodes == {400, 401, 403, 404, 409, 429, 500, 599}

StatusText(code) ==
    CASE code = 200 -> "OK"
      [] code = 201 -> "Created"
      [] code = 400 -> "Bad Request"
      [] code = 401 -> "Unauthorized"
      [] code = 403 -> "Forbidden"
      [] code = 404 -> "Not Found"
      [] code = 409 -> "Conflict"
      [] code = 429 -> "Too Many Requests"
      [] code = 500 -> "Internal Server Error"
      [] OTHER -> ""

\* String(response.status)
CodeString(code) ==
    CASE code = 200 -> "200"
      [] code = 201 -> "201"
      [] code = 400 -> "400"
      [] code = 401 -> "401"
      [] code = 403 -> "403"
      [] code = 404 -> "404"
      [] code = 409 -> "409"
      [] code = 429 -> "429"
      [] code = 500 -> "500"
      [] code = 599 -> "599"
      [] OTHER -> "?"

HttpResponse(code, body) ==
    [kind |-> "http", code |-> code, statusText |-> StatusText(code),
     form |-> body.form, json |-> body.json]

\* What fetch() of the status service may produce: a rejection, or a response.
StatusResponses ==
    {[kind |-> "neterr", code |-> 0, statusText |-> "", form |-> "none", json |-> NoData]}
    \cup {HttpResponse(c, b) : c \in OkCodes, b \in Bodies}
    \cup UNION {{HttpResponse(c, b) : b \in ErrorBodies(c)} : c \in ErrorCodes}

----------------------------------------------------------------------------
(* PollResult *)

\* Variant of Success: the payload is rebuilt and its deploymentURL lost.
SuccessRebuilt(data) ==
    [type |-> "success", data |-> [data EXCEPT !.deploymentURL = Null], msg |-> <<>>]
Success(data) == [type |-> "success", data |-> data, msg |-> <<>>]
Continue(reason) == [type |-> "continue", data |-> NoData, msg |-> reason]
Fatal(error) == [type |-> "fatal", data |-> NoData, msg |-> error]

\* Variant of Ok: every code below 500 counts as success.
OkBelow500(r) == r.code >= 200 /\ r.code < 500
\* response.ok
Ok(r) == r.code >= 200 /\ r.code <= 299

\* await response.text(): the text, or a rejection when the body cannot be read
TextFails(r) == r.form = "unreadable"
ErrorText(r) == IF r.form = "object" THEN "{json}" ELSE IF r.form = "null" THEN "null" ELSE "text"

\* await response.json() followed by reading result.status: throws when the body
\* cannot be read, is not JSON, or is null
JsonFails(r) == r.form \in {"unreadable", "text", "null"}

\* Variant of Falsy: only the empty string counts (result.deploymentURL === "").
FalsyEmptyOnly(v) == v = ""
\* !result.deploymentURL
Falsy(v) == v \in {"", Null, Absent}

HttpMessage(prefix, r) ==
    <<prefix, CodeString(r.code), " ", r.statusText, "\n", ErrorText(r)>>

\* Variant of Caught: the catch block gives up instead of retrying.
CaughtFatal == Fatal(<<"Error checking deployment status: ", "exception">>)
\* catch (error): network errors and other exceptions continue
Caught == Continue(<<"Error checking deployment status: ", "exception">>)

\* Variant of ClassifyBody: a status outside the known ones is fatal.
ClassifyBodyStrict(r) ==
    IF JsonFails(r) THEN Caught
    ELSE IF r.json.status = "READY" THEN
        IF Falsy(r.json.deploymentURL)
        THEN Fatal(<<"Deployment is ready but no URL was provided">>)
        ELSE Success(r.json)
    ELSE IF r.json.status \in FAILED_STATUSES THEN
        Fatal(<<"Deployment failed with status: ", r.json.status>>)
    ELSE IF r.json.status \in IN_PROGRESS_STATUSES THEN
        Continue(<<"Deployment status: ", r.json.status>>)
    ELSE Fatal(<<"Unknown deployment status: ", r.json.status>>)

\* The classification of a 2xx response, shared by both revisions.
ClassifyBody(r) ==
    IF JsonFails(r) THEN Caught
    ELSE IF r.json.status = "READY" THEN
        IF Falsy(r.json.deploymentURL)
        THEN Fatal(<<"Deployment is ready but no URL was provided">>)
        ELSE Success(r.json)
    ELSE IF r.json.status \in FAILED_STATUSES THEN
        Fatal(<<"Deployment failed with status: ", r.json.status>>)
    ELSE IF r.json.status \in IN_PROGRESS_STATUSES THEN
        Continue(<<"Deployment status: ", r.json.status>>)
    ELSE Continue(<<"Unknown deployment status: ", r.json.status>>)

\* Variant of pollDeploymentStatus: 404 is handled like the other fatal 4xx codes.
pollDeploymentStatusNotFoundFatal(r) ==
    IF r.kind = "neterr" THEN Caught
    ELSE IF r.code \in {400, 403, 404, 409} THEN
        IF TextFails(r) THEN Caught ELSE Fatal(HttpMessage("Bad request: ", r))
    ELSE IF r.code >= 500 /\ r.code < 600 THEN
        IF TextFails(r) THEN Caught ELSE Fatal(HttpMessage("Server error: ", r))
    ELSE IF ~Ok(r) THEN
        IF TextFails(r) THEN Caught ELSE Continue(HttpMessage("API request failed: ", r))
    ELSE ClassifyBody(r)

\* pollDeploymentStatus, first revision
pollDeploymentStatus(r) ==
    IF r.kind = "neterr" THEN Caught
    ELSE IF r.code = 400 THEN
        IF TextFails(r) THEN Caught ELSE Fatal(HttpMessage("Bad request: ", r))
    ELSE IF r.code = 403 THEN
        IF TextFails(r) THEN Caught ELSE Fatal(HttpMessage("Authorization failed: ", r))
    ELSE IF r.code = 409 THEN
        IF TextFails(r) THEN Caught
        ELSE Fatal(HttpMessage("Conflict when fetching deployment status: ", r))
    ELSE IF r.code = 404 THEN
        IF TextFails(r) THEN Caught
        ELSE Continue(<<"Deployment not found yet, waiting for it to be created">>)
    ELSE IF r.code >= 500 /\ r.code < 600 THEN
        IF TextFails(r) THEN Caught ELSE Fatal(HttpMessage("Server error: ", r))
    ELSE IF ~Ok(r) THEN
        IF TextFails(r) THEN Caught ELSE Continue(HttpMessage("API request failed: ", r))
    ELSE ClassifyBody(r)

\* pollDeploymentStatus, second revision
pollDeploymentStatusLegacy(r) ==
    IF r.kind = "neterr" THEN Caught
    ELSE IF r.code = 400 THEN
        IF TextFails(r) THEN Caught ELSE Fatal(HttpMessage("Bad request: ", r))
    ELSE IF r.code = 403 THEN
        IF TextFails(r) THEN Caught ELSE Fatal(HttpMessage("Authorization failed: ", r))
    ELSE IF r.code = 404 THEN
        IF TextFails(r) THEN Caught
        ELSE Continue(<<"Deployment not found yet, waiting for it to be created">>)
    ELSE IF ~Ok(r) THEN
        IF TextFails(r) THEN Caught ELSE Continue(HttpMessage("API request failed: ", r))
    ELSE ClassifyBody(r)

----------------------------------------------------------------------------
(* Credential provider *)

\* getTokenExpiry: the decode error, or exp * 1000
DecodeFails(t) ==
    \/ t.parts # 3
    \/ t.payload = "notjson"
    \/ t.payload = "noexp"
    \/ t.payload = "strexp"
    \/ t.exp = 0
getTokenExpiry(t) == t.exp * 1000

Credential(t) == [token |-> t, expiresAt |-> getTokenExpiry(t)]

\* Variant of shouldRefreshToken: the comparison is strict.
shouldRefreshTokenStrict(tokenWithExpiry, clock) ==
    tokenWithExpiry.expiresAt - clock < REFRESH_BUFFER_MS

shouldRefreshToken(tokenWithExpiry, clock) ==
    tokenWithExpiry.expiresAt - clock <= REFRESH_BUFFER_MS

\* Variant of EnvMissing: only the request URL is looked at.
EnvMissingUrlOnly(e) == ~e.url
\* getOIDCToken: the environment check made before the request
EnvMissing(e) == ~e.url \/ ~e.token
ConfigMessage == <<"Unable to get OIDC token.">>

\* getOIDCToken after the request settled: the error it throws, or "none"
BrokerError(b) ==
    IF b.kind = "neterr" THEN "network"
    ELSE IF ~(b.code >= 200 /\ b.code <= 299) THEN "http"
    ELSE IF b.value = NoToken THEN "novalue"
    ELSE "none"

\* createTokenWithExpiry after the request settled: the error it throws, or "none"
AcquireError(b) ==
    IF BrokerError(b) # "none" THEN BrokerError(b)
    ELSE IF DecodeFails(b.value) THEN "decode"
    ELSE "none"

AcquireMessage(error) ==
    CASE error = "network" -> <<"fetch failed">>
      [] error = "http" -> <<"Failed to get OIDC token: ", "500">>
      [] error = "novalue" -> <<"Failed to get OIDC token: No value returned">>
      [] OTHER -> <<"Failed to decode token expiry: ", "error">>

----------------------------------------------------------------------------
(* Wait orchestrator *)

\* The record of one iteration: the clock at its top, the credential it started with,
\* what shouldRefreshToken answered, the createTokenWithExpiry calls it made, the
\* credentials these returned, the token getOIDCToken returned and the error
\* createTokenWithExpiry threw ("config", "network", "http", "novalue", "decode").
NoCredential == [token |-> NoToken, expiresAt |-> 0]
NoIter == [checkedAt |-> 0, before |-> NoCredential, needed |-> FALSE,
           attempts |-> 0, acquired |-> 0, issued |-> NoToken, error |-> "none"]
IterStart == [checkedAt |-> now, before |-> currentToken,
              needed |-> shouldRefreshToken(currentToken, now),
              attempts |-> 0, acquired |-> 0, issued |-> NoToken, error |-> "none"]

\* core before run() has read or set anything; the wait called on its own.
NoInputs == [projectName |-> "", projectId |-> "", setUrlEnvVar |-> "", timeoutSeconds |-> ""]
\* outputs is the set of <<name, value>> pairs core.setOutput was called with.
\* failed is the message core.setFailed was called with, NotFailed when it was not.
NotFailed == <<>>
NoCore == [inputs |-> NoInputs, failed |-> NotFailed, outputs |-> {}, exported |-> Absent]

Threw(type, msg) == [type |-> type, data |-> NoData, msg |-> msg]
Returned(data) == [type |-> "success", data |-> data, msg |-> <<>>]

TimeoutMessage == <<"Timeout waiting for deployment after ", "timeoutSeconds", " seconds">>

\* Variant of TimeoutExceeded: the comparison is not strict.
TimeoutExceededInclusive == now - startTime >= timeoutSeconds * 1000

\* if (Date.now() - startTime > timeoutMs)
TimeoutExceeded == now - startTime > timeoutSeconds * 1000

Init ==
    /\ pc = "top"
    /\ now \in StartTimes
    /\ startTime = now
    /\ timeoutSeconds \in TimeoutChoices
    /\ env \in {[url |-> TRUE, token |-> TRUE], [url |-> FALSE, token |-> TRUE],
                [url |-> TRUE, token |-> FALSE]}
    /\ currentToken \in {Credential(Token(0, 3, "object", e)) : e \in InitialExps}
    /\ sent = NoToken
    /\ response = NoResponse
    /\ result = NoResult
    /\ outcome = NoOutcome
    /\ decisions = <<>>
    /\ polls = 0
    /\ brokerCalls = 0
    /\ acquires = 0
    /\ sleeps = 0
    /\ iter = NoIter
    /\ core = NoCore

\* Variant of TimedOut: the budget is exceeded but no error is thrown and the loop
\* is not continued.
TimedOutHangs ==
    /\ pc = "top"
    /\ TimeoutExceeded
    /\ pc' = "hung"
    /\ UNCHANGED <<core, now, startTime, timeoutSeconds, env, currentToken, sent, response,
                   result, outcome, decisions, polls, brokerCalls, acquires, sleeps, iter>>

\* Top of the loop, budget exceeded: the timeout error is thrown.
TimedOut ==
    /\ pc = "top"
    /\ TimeoutExceeded
    /\ pc' = "done"
    /\ outcome' = Threw("timeout", TimeoutMessage)
    /\ UNCHANGED <<core, now, startTime, timeoutSeconds, env, currentToken, sent, response,
                   result, decisions, polls, brokerCalls, acquires, sleeps, iter>>

\* Variant of KeepToken: getValidToken returns the credential without checking it.
KeepTokenUnchecked ==
    /\ pc = "top"
    /\ ~TimeoutExceeded
    /\ iter' = IterStart
    /\ sent' = currentToken.token
    /\ polls' = polls + 1
    /\ pc' = "awaitPoll"
    /\ UNCHANGED <<core, now, startTime, timeoutSeconds, env, currentToken, response,
                   result,
                   outcome, decisions, brokerCalls, acquires, sleeps>>

\* Top of the loop, getValidToken keeps the credential: the status request is sent.
KeepToken ==
    /\ pc = "top"
    /\ ~TimeoutExceeded
    /\ ~shouldRefreshToken(currentToken, now)
    /\ iter' = IterStart
    /\ sent' = currentToken.token
    /\ polls' = polls + 1
    /\ pc' = "awaitPoll"
    /\ UNCHANGED <<core, now, startTime, timeoutSeconds, env, currentToken, response,
                   result,
                   outcome, decisions, brokerCalls, acquires, sleeps>>

\* Top of the loop, getValidToken refreshes: getOIDCToken sends the broker request,
\* or throws when the environment lacks the broker variables.
StartRefresh ==
    /\ pc = "top"
    /\ ~TimeoutExceeded
    /\ shouldRefreshToken(currentToken, now)
    /\ acquires' = acquires + 1
    /\ IF EnvMissing(env)
       THEN /\ pc' = "done"
            /\ iter' = [IterStart EXCEPT !.attempts = @ + 1, !.error = "config"]
            /\ outcome' = Threw("acquire", ConfigMessage)
            /\ UNCHANGED brokerCalls
       ELSE /\ pc' = "awaitBroker"
            /\ iter' = [IterStart EXCEPT !.attempts = @ + 1]
            /\ brokerCalls' = brokerCalls + 1
            /\ UNCHANGED outcome
    /\ UNCHANGED <<core, now, startTime, timeoutSeconds, env, currentToken, sent, response,
                   result, decisions, polls, sleeps>>

\* Variant of BrokerResponds: a failed refresh is swallowed and the poll goes out with
\* the old credential.
BrokerRespondsKeepsOld(l, b) ==
    /\ pc = "awaitBroker"
    /\ now' = now + l
    /\ IF AcquireError(b) # "none" THEN
            /\ iter' = [iter EXCEPT !.issued = b.value, !.error = AcquireError(b)]
            /\ sent' = currentToken.token
            /\ UNCHANGED currentToken
       ELSE
            /\ currentToken' = Credential(b.value)
            /\ iter' = [iter EXCEPT !.acquired = @ + 1, !.issued = b.value]
            /\ sent' = b.value
    /\ polls' = polls + 1
    /\ pc' = "awaitPoll"
    /\ UNCHANGED <<core, startTime, timeoutSeconds, env, response, result, decisions,
                   brokerCalls, acquires, sleeps, outcome>>

\* The broker request settles: createTokenWithExpiry throws, or the new credential
\* replaces the current one and the status request is sent with it.
BrokerResponds(l, b) ==
    /\ pc = "awaitBroker"
    /\ now' = now + l
    /\ IF AcquireError(b) # "none" THEN
            /\ pc' = "done"
            /\ outcome' = Threw("acquire", AcquireMessage(AcquireError(b)))
            /\ iter' = [iter EXCEPT !.issued = b.value, !.error = AcquireError(b)]
            /\ UNCHANGED <<currentToken, sent, polls>>
       ELSE
            /\ currentToken' = Credential(b.value)
            /\ iter' = [iter EXCEPT !.acquired = @ + 1, !.issued = b.value]
            /\ sent' = b.value
            /\ polls' = polls + 1
            /\ pc' = "awaitPoll"
            /\ UNCHANGED outcome
    /\ UNCHANGED <<core, startTime, timeoutSeconds, env, response, result, decisions,
                   brokerCalls, acquires, sleeps>>

\* Variant of Switch: a fatal result is logged and retried like a continue.
SwitchFatalRetries(res) ==
    CASE res.type = "success" -> "return"
      [] OTHER -> "sleep"

\* Variant of Switch: the success case falls through to the sleep.
SwitchSuccessFallsThrough(res) ==
    CASE res.type = "fatal" -> "throw"
      [] OTHER -> "sleep"

\* Variant of Switch: the third continue in a row gives up.
SwitchAttemptCap(res) ==
    CASE res.type = "success" -> "return"
      [] res.type = "fatal" -> "throw"
      [] res.type = "continue" /\ Len(decisions) >= 2 -> "throw"
      [] OTHER -> "sleep"

\* switch (result.type): return, throw, or sleep and loop
Switch(res) ==
    CASE res.type = "success" -> "return"
      [] res.type = "fatal" -> "throw"
      [] OTHER -> "sleep"

\* The status request settles: the poll classifies it and the switch acts on it.
Respond(res, l, r) ==
    /\ pc = "awaitPoll"
    /\ now' = now + l
    /\ response' = r
    /\ result' = res
    /\ decisions' = Append(decisions, res.type)
    /\ IF Switch(res) = "return" THEN
            /\ pc' = "done"
            /\ outcome' = Returned(res.data)
            /\ UNCHANGED sleeps
       ELSE IF Switch(res) = "throw" THEN
            /\ pc' = "done"
            /\ outcome' = Threw("fatal", res.msg)
            /\ UNCHANGED sleeps
       ELSE
            /\ pc' = "sleeping"
            /\ sleeps' = sleeps + 1
            /\ UNCHANGED outcome
    /\ UNCHANGED <<core, startTime, timeoutSeconds, env, currentToken, sent, polls,
                   brokerCalls, acquires, iter>>

StatusResponds(l, r) == Respond(pollDeploymentStatus(r), l, r)

\* Variant of SleepEnds: the loop sleeps twice between two polls.
SleepEndsTwice(lag) ==
    /\ pc = "sleeping"
    /\ now' = now + 2 * POLL_INTERVAL_MS + lag
    /\ pc' = "top"
    /\ sent' = NoToken
    /\ response' = NoResponse
    /\ result' = NoResult
    /\ iter' = NoIter
    /\ UNCHANGED <<core, startTime, timeoutSeconds, env, currentToken, outcome, decisions,
                   polls, brokerCalls, acquires, sleeps>>

\* The sleep timer fires: the next iteration starts.
SleepEnds(lag) ==
    /\ pc = "sleeping"
    /\ now' = now + POLL_INTERVAL_MS + lag
    /\ pc' = "top"
    /\ sent' = NoToken
    /\ response' = NoResponse
    /\ result' = NoResult
    /\ iter' = NoIter
    /\ UNCHANGED <<core, startTime, timeoutSeconds, env, currentToken, outcome, decisions,
                   polls, brokerCalls, acquires, sleeps>>

Next ==
    \/ TimedOut
    \/ KeepToken
    \/ StartRefresh
    \/ \E l \in Latencies, b \in BrokerResponses(acquires) : BrokerResponds(l, b)
    \/ \E l \in Latencies, r \in StatusResponses : StatusResponds(l, r)
    \/ \E lag \in TimerLags : SleepEnds(lag)

Spec == Init /\ [][Next]_vars

\* The event loop runs every settled request and every timer that is due: a step that
\* stays possible is taken.
FairSpec == Spec /\ WF_vars(Next)

----------------------------------------------------------------------------
(* Wait loop of the second revision: the token is a string and is never refreshed *)

LegacyPoll ==
    /\ pc = "top"
    /\ ~TimeoutExceeded
    /\ iter' = IterStart
    /\ sent' = currentToken.token
    /\ polls' = polls + 1
    /\ pc' = "awaitPoll"
    /\ UNCHANGED <<core, now, startTime, timeoutSeconds, env, currentToken, response,
                   result,
                   outcome, decisions, brokerCalls, acquires, sleeps>>

LegacyStatusResponds(l, r) == Respond(pollDeploymentStatusLegacy(r), l, r)

NextLegacy ==
    \/ TimedOut
    \/ LegacyPoll
    \/ \E l \in Latencies, r \in StatusResponses : LegacyStatusResponds(l, r)
    \/ \E lag \in TimerLags : SleepEnds(lag)

SpecLegacy == Init /\ [][NextLegacy]_vars

----------------------------------------------------------------------------
(* run(): the inputs are read, the first credential is acquired, the inputs and the
   environment are validated, the wait runs, the outputs or the failure are set *)

\* core.getInput values: "" is an input that is not given.
ProjectInputs ==
    {[projectName |-> n, projectId |-> i] :
        n \in {"", "my-project"}, i \in {"", "prj_1"}}
\* timeout-seconds as written by the workflow; the default applies to "", which the
\* explored runs replace by a budget the loop can exhaust.
TimeoutInputs == {"5", "10", "10s", "0", "-5", "abc"}
RunInputs ==
    {[projectName |-> p.projectName, projectId |-> p.projectId,
      setUrlEnvVar |-> "DEPLOYMENT_URL", timeoutSeconds |-> t] :
        p \in ProjectInputs, t \in {"5"}}
    \cup {[projectName |-> "my-project", projectId |-> "",
           setUrlEnvVar |-> "DEPLOYMENT_URL", timeoutSeconds |-> t] : t \in TimeoutInputs}
    \cup {[projectName |-> "my-project", projectId |-> "",
           setUrlEnvVar |-> "", timeoutSeconds |-> "5"]}

\* process.env as run() reads it: the broker variables, GITHUB_SHA, GITHUB_JOB, and
\* the head sha of a pull_request event whose payload could be read (Absent otherwise).
RunEnvs ==
    {[url |-> TRUE, token |-> TRUE, GITHUB_SHA |-> s, GITHUB_JOB |-> j, headSha |-> h] :
        s \in {Absent, "merge"}, j \in {Absent, "e2e"}, h \in {Absent, "head"}}
    \cup {[url |-> u, token |-> t, GITHUB_SHA |-> "merge", GITHUB_JOB |-> "e2e",
           headSha |-> Absent] : u \in BOOLEAN, t \in BOOLEAN}

\* Number.parseInt(core.getInput("timeout-seconds") || String(DEFAULT_TIMEOUT_SECONDS), 10):
\* the leading integer of the text, NaN when there is none.
\* A number is a record so that NaN is one: nan tells it apart, value is the integer.
Number(n) == [nan |-> FALSE, value |-> n]
NaN == [nan |-> TRUE, value |-> 0]
parseInt(text) ==
    CASE text = "" -> Number(DEFAULT_TIMEOUT_SECONDS)
      [] text = "5" -> Number(5)
      [] text = "10" -> Number(10)
      [] text = "10s" -> Number(10)
      [] text = "0" -> Number(0)
      [] text = "-5" -> Number(-5)
      [] OTHER -> NaN
\* Number.isNaN(timeoutSeconds) || timeoutSeconds <= 0
BadTimeout(n) == n.nan \/ n.value <= 0

\* let sha: the head sha of the pull request when there is one, else GITHUB_SHA
Sha(e) == IF e.headSha # Absent THEN e.headSha ELSE e.GITHUB_SHA

\* The checks run() makes after the credential is acquired, in their order; <<>> when
\* all pass.
ValidationError(in, e) ==
    IF in.projectName = "" /\ in.projectId = "" THEN
        <<"Either 'project-name' or 'project-id' input must be provided">>
    ELSE IF BadTimeout(parseInt(in.timeoutSeconds)) THEN
        <<"'timeout-seconds' must be a positive number">>
    ELSE IF Sha(e) = Absent THEN
        <<"GITHUB_SHA environment variable is not set">>
    ELSE IF e.GITHUB_JOB = Absent THEN
        <<"GITHUB_JOB environment variable is not set">>
    ELSE <<>>

\* catch (error) { core.setFailed(message) }
setFailed(msg) == [core EXCEPT !.failed = msg]

InitRun ==
    /\ pc = "run"
    /\ now \in StartTimes
    /\ startTime = 0
    /\ timeoutSeconds = 0
    /\ env \in RunEnvs
    /\ currentToken = NoCredential
    /\ sent = NoToken
    /\ response = NoResponse
    /\ result = NoResult
    /\ outcome = NoOutcome
    /\ decisions = <<>>
    /\ polls = 0
    /\ brokerCalls = 0
    /\ acquires = 0
    /\ sleeps = 0
    /\ iter = NoIter
    /\ core \in {[NoCore EXCEPT !.inputs = in] : in \in RunInputs}

\* run() up to its first await: the inputs are read (a required input that is not
\* given throws), then createTokenWithExpiry calls getOIDCToken, which throws without
\* the broker variables and else sends the broker request.
RunStart ==
    /\ pc = "run"
    /\ IF core.inputs.setUrlEnvVar = "" THEN
            /\ core' = setFailed(<<"Input required and not supplied: ", "set-url-env-var">>)
            /\ pc' = "exited"
            /\ UNCHANGED brokerCalls
       ELSE IF EnvMissing(env) THEN
            /\ core' = setFailed(ConfigMessage)
            /\ pc' = "exited"
            /\ UNCHANGED brokerCalls
       ELSE
            /\ brokerCalls' = brokerCalls + 1
            /\ pc' = "runAwaitBroker"
            /\ UNCHANGED core
    /\ UNCHANGED <<now, startTime, timeoutSeconds, env, currentToken, sent, response,
                   result, outcome, decisions, polls, acquires, sleeps, iter>>

\* The broker request of run() settles: createTokenWithExpiry throws or returns the
\* credential; then the inputs and the environment are checked, and the wait starts.
RunBrokerResponds(l, b) ==
    /\ pc = "runAwaitBroker"
    /\ now' = now + l
    /\ IF AcquireError(b) # "none" THEN
            /\ core' = setFailed(AcquireMessage(AcquireError(b)))
            /\ pc' = "exited"
            /\ UNCHANGED <<currentToken, startTime, timeoutSeconds>>
       ELSE IF ValidationError(core.inputs, env) # <<>> THEN
            /\ core' = setFailed(ValidationError(core.inputs, env))
            /\ pc' = "exited"
            /\ UNCHANGED <<currentToken, startTime, timeoutSeconds>>
       ELSE
            /\ currentToken' = Credential(b.value)
            /\ startTime' = now'
            /\ timeoutSeconds' = parseInt(core.inputs.timeoutSeconds).value
            /\ pc' = "top"
            /\ UNCHANGED core
    /\ UNCHANGED <<env, sent, response, result, outcome, decisions, polls, brokerCalls,
                   acquires, sleeps, iter>>

\* waitForVercelDeployment has returned or thrown: run() exports the URL and sets the
\* outputs, or its catch block sets the failure.
RunFinish ==
    /\ pc = "done"
    /\ pc' = "exited"
    /\ IF outcome.type = "success"
       THEN core' = [core EXCEPT !.outputs = {<<"deployment-url", outcome.data.deploymentURL>>,
                                              <<"deployment-id", outcome.data.deploymentId>>,
                                              <<"message", "Deployment ready">>},
                                 !.exported = outcome.data.deploymentURL]
       ELSE core' = setFailed(outcome.msg)
    /\ UNCHANGED <<now, startTime, timeoutSeconds, env, currentToken, sent, response,
                   result, outcome, decisions, polls, brokerCalls, acquires, sleeps, iter>>

NextRun ==
    \/ RunStart
    \/ \E l \in Latencies, b \in BrokerResponses(0) : RunBrokerResponds(l, b)
    \/ Next
    \/ RunFinish

SpecRun == InitRun /\ [][NextRun]_vars

----------------------------------------------------------------------------
(* register-vercel-check: run() acquires a token and registerCheck posts the commit.
   Its getOIDCToken is the text of the one above (EnvMissing, BrokerError); the token
   is used as issued, its expiry is not decoded. polls counts the registration
   requests, sent is their bearer token, response what fetch returned. *)

\* process.env as the action reads it: the broker variables and GITHUB_SHA
RegisterEnvs ==
    {[url |-> u, token |-> t, GITHUB_SHA |-> s] :
        u \in BOOLEAN, t \in BOOLEAN, s \in {Absent, "merge"}}

\* What fetch() of the registration endpoint may produce: a rejection, or a response
\* with some status and a body that can or cannot be read.
RegisterCodes == {200, 201, 400, 401, 404, 500}
RegisterResponses ==
    {[kind |-> "neterr", code |-> 0, statusText |-> "", form |-> "none", json |-> NoData]}
    \cup {HttpResponse(c, b) : c \in RegisterCodes,
                               b \in {Body("text", NoData), Body("unreadable", NoData)}}

\* registerCheck after fetch: what it throws, <<>> when it returns { success: true }
RegisterError(r) ==
    IF r.kind = "neterr" THEN <<"fetch failed">>
    ELSE IF ~Ok(r) THEN
        IF TextFails(r) THEN <<"body stream failed">>
        ELSE HttpMessage("Failed to register check: ", r)
    ELSE <<>>

\* core.setOutput("message", "Check registered successfully")
RegisterOutputs == {<<"message", "Check registered successfully">>}

InitRegister ==
    /\ pc = "register"
    /\ now \in StartTimes
    /\ startTime = 0
    /\ timeoutSeconds = 0
    /\ env \in RegisterEnvs
    /\ currentToken = NoCredential
    /\ sent = NoToken
    /\ response = NoResponse
    /\ result = NoResult
    /\ outcome = NoOutcome
    /\ decisions = <<>>
    /\ polls = 0
    /\ brokerCalls = 0
    /\ acquires = 0
    /\ sleeps = 0
    /\ iter = NoIter
    /\ core = NoCore

\* run() up to its first await: getOIDCToken throws without the broker variables and
\* else sends the broker request.
RegisterStart ==
    /\ pc = "register"
    /\ IF EnvMissing(env) THEN
            /\ core' = setFailed(ConfigMessage)
            /\ pc' = "exited"
            /\ UNCHANGED brokerCalls
       ELSE
            /\ brokerCalls' = brokerCalls + 1
            /\ pc' = "registerAwaitBroker"
            /\ UNCHANGED core
    /\ UNCHANGED <<now, startTime, timeoutSeconds, env, currentToken, sent, response,
                   result, outcome, decisions, polls, acquires, sleeps, iter>>

\* The broker request settles: getOIDCToken throws or returns the token; registerCheck
\* then throws without GITHUB_SHA and else sends the registration request.
RegisterBrokerResponds(l, b) ==
    /\ pc = "registerAwaitBroker"
    /\ now' = now + l
    /\ IF BrokerError(b) # "none" THEN
            /\ core' = setFailed(AcquireMessage(BrokerError(b)))
            /\ pc' = "exited"
            /\ UNCHANGED <<sent, polls>>
       ELSE IF env.GITHUB_SHA = Absent THEN
            /\ core' = setFailed(<<"GITHUB_SHA environment variable is not set">>)
            /\ pc' = "exited"
            /\ UNCHANGED <<sent, polls>>
       ELSE
            /\ sent' = b.value
            /\ polls' = polls + 1
            /\ pc' = "registerAwaitFetch"
            /\ UNCHANGED core
    /\ UNCHANGED <<startTime, timeoutSeconds, env, currentToken, response, result,
                   outcome, decisions, brokerCalls, acquires, sleeps, iter>>

\* The registration request settles: registerCheck throws or returns, and run() sets
\* the failure or the output.
RegisterResponds(l, r) ==
    /\ pc = "registerAwaitFetch"
    /\ now' = now + l
    /\ response' = r
    /\ pc' = "exited"
    /\ IF RegisterError(r) # <<>>
       THEN core' = setFailed(RegisterError(r))
       ELSE core' = [core EXCEPT !.outputs = RegisterOutputs]
    /\ UNCHANGED <<startTime, timeoutSeconds, env, currentToken, sent, result, outcome,
                   decisions, polls, brokerCalls, acquires, sleeps, iter>>

NextRegister ==
    \/ RegisterStart
    \/ \E l \in Latencies, b \in BrokerResponses(0) : RegisterBrokerResponds(l, b)
    \/ \E l \in Latencies, r \in RegisterResponses : RegisterResponds(l, r)

SpecRegister == InitRegister /\ [][NextRegister]_vars

----------------------------------------------------------------------------
(* Properties *)

Received == response.kind = "http"
Received2xx == Received /\ response.code >= 200 /\ response.code <= 299
ReceivedObject == Received2xx /\ response.form = "object"
Elapsed == now - startTime
Budget == timeoutSeconds * 1000
Remaining == iter.before.expiresAt - iter.checkedAt
InIteration == pc \in {"awaitBroker", "awaitPoll", "sleeping"}
                \/ (pc = "done" /\ outcome.type # "timeout")
AllContinue(seq) == \A i \in DOMAIN seq : seq[i] = "continue"
Front(seq) == SubSeq(seq, 1, Len(seq) - 1)

\* C1: a status response with HTTP code 400, 403, 409 or 500..599 is classified
\* Fatal, whatever its body, and ends the wait instead of being retried.
C1_ErrorCodesAreFatal ==
    (Received /\ (response.code \in {400, 403, 409}
                  \/ (response.code >= 500 /\ response.code <= 599)))
        => (result.type = "fatal" /\ pc = "done" /\ outcome.type = "fatal")

\* C2: a 2xx response with status READY and a non-empty deploymentURL is classified
\* Success carrying the received payload unchanged, and the wait returns that payload.
C2_ReadyWithUrlSucceeds ==
    (ReceivedObject /\ response.json.status = "READY"
        /\ response.json.deploymentURL \notin {"", Null, Absent})
        => /\ result.type = "success"
           /\ result.data = response.json
           /\ pc = "done"
           /\ outcome.type = "success"
           /\ outcome.data = response.json

C2_Witness ==
    /\ ReceivedObject
    /\ response.json.status = "READY"
    /\ response.json.deploymentURL = Url
    /\ outcome.type = "success"

\* C3: a 2xx response with status READY whose deploymentURL is empty, null or absent
\* is classified Fatal: it ends the wait, is not retried and is not a success.
C3_ReadyWithoutUrlIsFatal ==
    (ReceivedObject /\ response.json.status = "READY"
        /\ response.json.deploymentURL \in {"", Null, Absent})
        => /\ result.type = "fatal"
           /\ pc = "done"
           /\ outcome.type = "fatal"
           /\ sleeps = polls - 1

C3_Witness ==
    /\ ReceivedObject
    /\ response.json.status = "READY"
    /\ response.json.deploymentURL = Null
    /\ outcome.type = "fatal"

\* C4: a 2xx response with status ERROR or CANCELED is classified Fatal and the
\* message holds the status value received.
C4_FailedStatusIsFatalAndNamed ==
    (ReceivedObject /\ response.json.status \in {"ERROR", "CANCELED"})
        => /\ result.type = "fatal"
           /\ \E i \in DOMAIN result.msg : result.msg[i] = response.json.status
           /\ outcome.msg = result.msg

C4_Witness ==
    /\ ReceivedObject
    /\ response.json.status = "CANCELED"
    /\ outcome.type = "fatal"

\* C5: in an iteration that passed the timeout check, createTokenWithExpiry is called
\* if and only if expiresAt - now <= 30000 held for the current credential, and at most
\* once; when it returns a credential, that credential replaces the current one and the
\* status request of the iteration carries its token; when it is not called, the
\* credential is unchanged and the request carries the old token.
C5_RefreshIffNeeded ==
    InIteration =>
        /\ iter.attempts = (IF Remaining <= 30000 THEN 1 ELSE 0)
        /\ iter.acquired <= iter.attempts
        /\ (pc = "awaitBroker") => (iter.attempts = 1 /\ iter.acquired = 0)
        /\ (sent # NoToken) =>
              /\ iter.acquired = iter.attempts
              /\ sent = currentToken.token
              /\ IF iter.acquired = 1
                 THEN currentToken # iter.before /\ sent.id # iter.before.token.id
                 ELSE currentToken = iter.before
        /\ (sent = NoToken) => currentToken = iter.before

C5_Witness ==
    /\ pc = "awaitPoll"
    /\ iter.acquired = 1
    /\ sent = currentToken.token
    /\ sent.id # iter.before.token.id
    /\ polls >= 2

\* C6: shouldRefreshToken is true exactly when expiresAt - now <= 30000: true at
\* 30000 ms remaining, false at 30001 ms, true for a credential already expired.
C6_RefreshBoundary ==
    InIteration =>
        /\ iter.needed <=> (Remaining <= 30000)
        /\ (Remaining = 30000) => iter.needed
        /\ (Remaining = 30001) => ~iter.needed
        /\ (Remaining < 0) => iter.needed

C6_Witness == InIteration /\ Remaining = 30000 /\ iter.needed

\* C7: a Fatal decision is thrown at once: it is the last decision, the wait is over
\* with that error, and no status request, acquisition or sleep follows it.
C7_FatalEndsTheWait ==
    /\ [](("fatal" \in {decisions[i] : i \in DOMAIN decisions})
            => /\ decisions[Len(decisions)] = "fatal"
               /\ pc = "done"
               /\ outcome = Threw("fatal", result.msg)
               /\ polls = Len(decisions)
               /\ sleeps = Len(decisions) - 1)
    /\ [][("fatal" \in {decisions[i] : i \in DOMAIN decisions})
            => UNCHANGED <<polls, brokerCalls, acquires, sleeps>>]_vars

C7_Witness ==
    /\ Len(decisions) = 3
    /\ decisions[3] = "fatal"
    /\ outcome.type = "fatal"
    /\ acquires >= 1

\* C8: when the decisions are k-1 Continue followed by a Success, the wait has
\* returned the payload of that Success after exactly k status requests.
C8_SuccessAfterContinues ==
    (Len(decisions) >= 1 /\ decisions[Len(decisions)] = "success"
        /\ AllContinue(Front(decisions)))
        => /\ pc = "done"
           /\ outcome = Returned(response.json)
           /\ polls = Len(decisions)
           /\ sleeps = Len(decisions) - 1

C8_Witness ==
    /\ decisions = <<"continue", "continue", "success">>
    /\ timeoutSeconds = MaxTimeoutSeconds
    /\ outcome.type = "success"
    /\ outcome.data.deploymentURL = Url
    /\ polls = 3

\* C9: the timeout error is raised only at the top of an iteration, and there exactly
\* when the elapsed time strictly exceeds the budget; a wait whose polls all yield
\* Continue and whose refreshes all succeed ends with the timeout error, after at
\* least one status request.
C9_TimeoutOnlyWhenExceeded ==
    /\ [](outcome.type = "timeout" => (Elapsed > Budget /\ polls >= 1))
    /\ []((pc = "done" /\ AllContinue(decisions) /\ outcome.type # "acquire")
            => outcome.type = "timeout")
    /\ ([](result.type \in {"none", "continue"} /\ outcome.type # "acquire"))
            => <>(outcome.type = "timeout")
    /\ [][/\ (outcome.type # "timeout" /\ outcome'.type = "timeout") => pc = "top"
          /\ (pc = "top" /\ Elapsed > Budget) => outcome'.type = "timeout"
          /\ (pc = "top" /\ Elapsed <= Budget) => (outcome'.type # "timeout" /\ pc' # "top")
         ]_vars

C9_Witness ==
    /\ outcome.type = "timeout"
    /\ Elapsed = Budget + 1
    /\ AllContinue(decisions)
    /\ polls = 2

\* A check at which the elapsed time equals the budget is followed by a status request.
PollsAtBudget == pc = "awaitPoll" /\ iter.checkedAt - startTime = Budget /\ polls >= 2

\* C10: the wait ends in exactly one of four ways (the payload of a Success, the error
\* of a Fatal, the timeout error, an error of a refresh), and a Continue decision never
\* ends it, however many came before.
C10_EndsInOneOfFourWays ==
    /\ (pc = "done") <=> (outcome.type \in {"success", "fatal", "timeout", "acquire"})
    /\ outcome.type \in {"none", "success", "fatal", "timeout", "acquire"}
    /\ (outcome.type = "success") => (result.type = "success" /\ outcome.data = result.data)
    /\ (outcome.type = "fatal") => (result.type = "fatal" /\ outcome.msg = result.msg)
    /\ (outcome.type = "timeout") => (pc = "done" /\ result.type = "none")
    /\ (outcome.type = "acquire") => (result.type = "none" /\ iter.attempts = 1
                                        /\ iter.acquired = 0)
    /\ (result.type = "continue") => (pc = "sleeping" /\ outcome.type = "none")
    /\ AllContinue(Front(decisions))

C10_Witness ==
    /\ result.type = "continue"
    /\ Len(decisions) = 3
    /\ pc = "sleeping"
    /\ outcome.type = "none"

\* C11 as stated: the wait is over no later than the timeout budget plus one request's
\* round-trip time after it started.
C11_EndsWithinOneRoundTrip ==
    (pc = "done") => (Elapsed <= Budget + MaxLatencyMs)

\* C11 as amended: the wait is over no later than the timeout budget plus the round
\* trips of one broker request and one status request plus one inter-poll sleep (the
\* poll interval and the timer's lag) after it started.
C11_EndsWithinLastIteration ==
    /\ Elapsed <= Budget + 2 * MaxLatencyMs + 5000 + MaxTimerLagMs
    /\ (pc = "done" /\ outcome.type # "timeout") => (Elapsed <= Budget + 2 * MaxLatencyMs)
    /\ (pc = "done" /\ acquires = 0) => (Elapsed <= Budget + MaxLatencyMs + 5000 + MaxTimerLagMs)

C11_Witness ==
    /\ pc = "done"
    /\ outcome.type = "timeout"
    /\ acquires >= 1
    /\ Elapsed = Budget + 2 * MaxLatencyMs + 5000 + MaxTimerLagMs

\* C12: a 2xx response whose status is outside QUEUED, INITIALIZING, BUILDING, READY,
\* ERROR, CANCELED is classified Continue, never Fatal, and the wait sleeps and loops.
C12_UnknownStatusContinues ==
    (ReceivedObject /\ response.json.status \notin
        {"QUEUED", "INITIALIZING", "BUILDING", "READY", "ERROR", "CANCELED"})
        => /\ result.type = "continue"
           /\ pc = "sleeping"
           /\ outcome.type = "none"

C12_Witness ==
    /\ ReceivedObject
    /\ response.json.status = "PENDING_REVIEW"
    /\ result.type = "continue"
    /\ Len(decisions) >= 2

\* C13: an HTTP 404 response is classified Continue whatever its body, and the loop
\* polls again only after the poll interval has passed.
C13_NotFoundContinues ==
    /\ []((Received /\ response.code = 404)
            => (result.type = "continue" /\ pc = "sleeping" /\ outcome.type = "none"))
    /\ [][(pc = "sleeping") => (pc' = "top" /\ now' >= now + 5000 /\ polls' = polls)]_vars

C13_Witness ==
    /\ Received
    /\ response.code = 404
    /\ response.form = "object"
    /\ response.json.status = "READY"
    /\ pc = "sleeping"

\* C14: a 2xx response with status QUEUED, INITIALIZING or BUILDING is classified
\* Continue.
C14_InProgressContinues ==
    (ReceivedObject /\ response.json.status \in {"QUEUED", "INITIALIZING", "BUILDING"})
        => (result.type = "continue" /\ pc = "sleeping")

C14_Witness ==
    /\ ReceivedObject
    /\ response.json.status = "QUEUED"
    /\ result.type = "continue"

\* C15: a refresh that fails (broker variables missing, broker request failed or
\* answered non-2xx, no value, expiry not decodable) ends the wait with that error:
\* the acquisition is not retried, the iteration sends no status request, and no
\* request, acquisition or sleep follows.
C15_RefreshFailureIsFinal ==
    /\ []((iter.error # "none")
            => /\ pc = "done"
               /\ outcome.type = "acquire"
               /\ iter.attempts = 1
               /\ iter.acquired = 0
               /\ sent = NoToken
               /\ polls = Len(decisions)
               /\ sleeps = polls)
    /\ []((outcome.type = "acquire") => (iter.error # "none"))
    /\ [][(iter.error # "none")
            => UNCHANGED <<polls, brokerCalls, acquires, sleeps>>]_vars

C15_Witness ==
    /\ iter.error = "decode"
    /\ outcome.type = "acquire"
    /\ polls >= 1

\* C18: getTokenExpiry fails exactly when the token has not three segments, its middle
\* segment is not JSON, or exp is missing or not a number; for every numeric exp,
\* including 0, it returns exp * 1000.
C18_DecodeFailsExactlyWhenMalformed ==
    (iter.issued # NoToken) =>
        /\ (iter.error = "decode") <=>
              (iter.issued.parts # 3 \/ iter.issued.payload \in {"notjson", "noexp", "strexp"})
        /\ (iter.issued.parts = 3 /\ iter.issued.payload = "object")
              => currentToken.expiresAt = iter.issued.exp * 1000

\* C19: pollDeploymentStatus always returns a result; a failed request, a body that
\* cannot be read or parsed, and a body without status are classified Continue and
\* retried.
C19_ExceptionsContinue ==
    /\ (response.kind # "none") => result.type \in {"success", "continue", "fatal"}
    /\ (\/ response.kind = "neterr"
        \/ (Received /\ response.form = "unreadable")
        \/ (Received2xx /\ response.form \in {"text", "null"})
        \/ (ReceivedObject /\ response.json.status = Absent))
        => /\ result.type = "continue"
           /\ pc = "sleeping"
           /\ outcome.type = "none"

C19_Witness ==
    /\ Received2xx
    /\ response.form = "text"
    /\ result.type = "continue"
    /\ "continue" \in {decisions[i] : i \in DOMAIN Front(decisions)}

\* C20: a non-2xx response whose code is none of 400, 403, 404, 409, 500..599 is
\* classified Continue, and its body is not read as a deployment status.
C20_OtherErrorCodesContinue ==
    (Received /\ ~(response.code >= 200 /\ response.code <= 299)
        /\ response.code \notin {400, 403, 404, 409}
        /\ ~(response.code >= 500 /\ response.code <= 599))
        => /\ result.type = "continue"
           /\ result.data = NoData
           /\ pc = "sleeping"

C20_Witness ==
    /\ Received
    /\ response.code = 429
    /\ response.form = "object"
    /\ response.json.status = "READY"
    /\ result.type = "continue"

\* C16: when the broker's request URL or the ambient request token is absent from the
\* environment, getOIDCToken fails with the configuration error and no network request
\* is issued.
C16_MissingBrokerEnvIsConfigError ==
    (~env.url \/ ~env.token)
        => /\ brokerCalls = 0
           /\ polls = 0
           /\ pc \in {"run", "exited"}
           /\ (pc = "exited" /\ core.inputs.setUrlEnvVar # "")
                => core.failed = <<"Unable to get OIDC token.">>

C16_Witness ==
    /\ env.url
    /\ ~env.token
    /\ pc = "exited"
    /\ core.failed = <<"Unable to get OIDC token.">>

\* C17: when neither project-name nor project-id is given, or the commit identifier
\* or the job identifier is absent, run fails with a configuration error and no
\* network call, to the broker or to the status service, has been issued.
C17_MissingInputFailsBeforeAnyRequest ==
    (\/ (core.inputs.projectName = "" /\ core.inputs.projectId = "")
     \/ (env.headSha = Absent /\ env.GITHUB_SHA = Absent)
     \/ env.GITHUB_JOB = Absent)
        => /\ brokerCalls = 0
           /\ polls = 0
           /\ (pc = "exited") => (core.failed # NotFailed)

\* C21: every status request carries a credential whose expiresAt is more than
\* 30000 ms later than the time of the iteration's refresh check, whether the
\* credential was kept or newly acquired in this iteration.
C21_SentCredentialOutlivesBuffer ==
    (sent # NoToken)
        => /\ currentToken.token = sent
           /\ currentToken.expiresAt - iter.checkedAt > 30000

\* C22: when every request returns and every sleep ends, the wait eventually reaches a
\* terminal state (Succeeded, Failed by a Fatal decision or a refresh error, TimedOut)
\* and stays there: no request, refresh or sleep occurs afterwards.
C22_WaitTerminates ==
    /\ <>[](pc = "done" /\ outcome.type \in {"success", "fatal", "acquire", "timeout"})
    /\ [][(pc = "done")
            => UNCHANGED <<pc, outcome, sent, polls, brokerCalls, acquires, sleeps>>]_vars

C22_Witness ==
    /\ pc = "done"
    /\ outcome.type = "timeout"
    /\ sleeps >= 2
    /\ acquires >= 1
    /\ brokerCalls >= 1

\* C23: the register-check action issues exactly one registration request and reports
\* success only when the service answered HTTP 200; for any other response it fails
\* with an error containing the HTTP status and the body, without retrying.
C23_RegistersOnceSucceedsOnlyOn200 ==
    /\ polls <= 1
    /\ (pc = "exited" /\ response.kind = "http")
        => /\ polls = 1
           /\ (core.failed = NotFailed) <=> (response.code = 200)
           /\ (response.code # 200)
                => /\ \E i \in DOMAIN core.failed : core.failed[i] = CodeString(response.code)
                   /\ \E i \in DOMAIN core.failed : core.failed[i] = ErrorText(response)

====
